---- MODULE Spec2Model ----
(***************************************************************************)
(* Model of the batch consensus scoring pipeline of scoring.py:            *)
(* pose extraction (multiple_pose_check), task enumeration and the worker  *)
(* pool (scoring, multiprocess_wrapper, prepare_features), the streaming   *)
(* assembler (binary_concat), the ensemble scorer (score, run_networks)    *)
(* and the consensus aggregation at the end of scoring().                  *)
(***************************************************************************)
EXTENDS Integers, Sequences, FiniteSets, TLC

(***************************************************************************)
(* Bounds of the model.                                                    *)
(***************************************************************************)
\* longest ligand record text, in tokens, given to the pose extractor
MaxTextLen == 6
\* most feature records handed to the assembler
MaxRecs == 4
\* most rows of a table given to a network family, most submodels of a family
MaxRows == 2
MaxNets == 3
\* most ligand records of one run, and the processors of the machine
MaxLigands == 2
CpuCount == 2
\* submodels taken from each network family's ranking
NumNetworks == 2

(***************************************************************************)
(* Generic sequence helpers.                                               *)
(***************************************************************************)
Range(s) == {s[i] : i \in 1..Len(s)}

SeqsUpTo(S, n) == UNION {[1..k -> S] : k \in 0..n}

RECURSIVE SumSeq(_)
SumSeq(s) == IF s = <<>> THEN 0 ELSE s[1] + SumSeq(Tail(s))

RECURSIVE Flatten(_)
Flatten(ss) == IF ss = <<>> THEN <<>> ELSE ss[1] \o Flatten(Tail(ss))

SelectIdx(s, P(_)) ==
    LET F[k \in 0..Len(s)] ==
            IF k = 0 THEN <<>>
            ELSE IF P(k) THEN Append(F[k-1], s[k]) ELSE F[k-1]
    IN F[Len(s)]

(***************************************************************************)
(* Text.  A text is a sequence of tokens: the marker words MODEL and       *)
(* ENDMDL, the newline NL, the blank SP, a digit "1" and a letter "A".     *)
(***************************************************************************)
Tok == {"MODEL", "NL", "SP", "1", "A", "ENDMDL"}

\* str.split(sep): the pieces of s between the occurrences of sep
RECURSIVE Split(_, _)
Split(s, sep) ==
    IF \A i \in 1..Len(s) : s[i] # sep THEN <<s>>
    ELSE LET k == CHOOSE i \in 1..Len(s) :
                      s[i] = sep /\ \A j \in 1..(i-1) : s[j] # sep
         IN <<SubSeq(s, 1, k-1)>> \o Split(SubSeq(s, k+1, Len(s)), sep)

\* sep.join(parts)
RECURSIVE Join(_, _)
Join(parts, sep) ==
    IF parts = <<>> THEN <<>>
    ELSE IF Len(parts) = 1 THEN parts[1]
    ELSE parts[1] \o <<sep>> \o Join(Tail(parts), sep)

\* str.strip(): leading and trailing whitespace removed
RECURSIVE LStrip(_)
LStrip(s) == IF s # <<>> /\ s[1] \in {"SP", "NL"} THEN LStrip(Tail(s)) ELSE s

RECURSIVE RStrip(_)
RStrip(s) ==
    IF s # <<>> /\ s[Len(s)] \in {"SP", "NL"}
    THEN RStrip(SubSeq(s, 1, Len(s)-1)) ELSE s

Strip(s) == RStrip(LStrip(s))

\* str.isnumeric(): not empty and every character a digit
IsNumeric(s) == s # <<>> /\ \A i \in 1..Len(s) : s[i] = "1"

\* 'ENDMDL' in line
HasEndMdl(line) == \E i \in 1..Len(line) : line[i] = "ENDMDL"

(***************************************************************************)
(* Pose extractor: multiple_pose_check.                                    *)
(***************************************************************************)
\* the line filter of the list comprehension
KeepLine(line) == ~IsNumeric(LStrip(Strip(line))) /\ ~HasEndMdl(line)

clean_lines(pose) ==
    LET lines == Split(pose, "NL")
    IN SelectIdx(lines, LAMBDA k : KeepLine(lines[k]))

\* the blocks appended by the loop: segments with at least 3 retained lines
PoseBlocks(lig_text) ==
    LET lig_poses == Split(lig_text, "MODEL")
        kept == SelectIdx(lig_poses, LAMBDA k : ~(Len(clean_lines(lig_poses[k])) < 3))
    IN [i \in 1..Len(kept) |-> Join(clean_lines(kept[i]), "NL")]

\* list.index(x): the 0-based position of the first value equal to x
ListIndex(s, x) ==
    (CHOOSE i \in 1..Len(s) : s[i] = x /\ \A j \in 1..(i-1) : s[j] # x) - 1

\* the suffix f'_pose_{n}'
PoseSuffix(n) == <<"_pose_", n>>

\* the numbering used by the final map
PoseNumber(blocks, i) == ListIndex(blocks, blocks[i]) + 1

multiple_pose_check(lig_text) ==
    LET blocks == PoseBlocks(lig_text)
    IN [i \in 1..Len(blocks) |-> <<PoseSuffix(PoseNumber(blocks, i)), blocks[i]>>]

(***************************************************************************)
(* Feature records.  A record is a one-row table: its column names, its    *)
(* rows of cells, a cell being a type tag and a value.  The nRot cell      *)
(* comes from the extractor as a digit string.                             *)
(***************************************************************************)
DTypes == {"int64", "float64"}

\* bytes of one element of either numeric type
ItemSize == 8

Cell(t, v) == [t |-> t, v |-> v]

DataFrame(columns, data) == [columns |-> columns, data |-> data]

\* df.shape
Shape(df) == <<Len(df.data), Len(df.columns)>>

\* pd.to_numeric on one cell: a digit string becomes an integer
to_numeric(cell) == IF cell.t = "str" THEN Cell("int64", cell.v) ELSE cell

\* position of a column name in the header, 0 when absent
ColPos(columns, name) ==
    IF \E c \in 1..Len(columns) : columns[c] = name
    THEN CHOOSE c \in 1..Len(columns) : columns[c] = name /\ \A d \in 1..(c-1) : columns[d] # name
    ELSE 0

HasColumn(df, name) == ColPos(df.columns, name) # 0

\* df['nRot'] = pd.to_numeric(df['nRot'])
CoerceNRot(df) ==
    LET p == ColPos(df.columns, "nRot")
    IN DataFrame(df.columns,
                 [r \in 1..Len(df.data) |->
                     [c \in 1..Len(df.columns) |->
                         IF c = p THEN to_numeric(df.data[r][c]) ELSE df.data[r][c]]])

\* df.values.dtype: the common type of the cells
ValuesDType(df) ==
    LET ts == {df.data[r][c].t : r \in 1..Len(df.data), c \in 1..Len(df.columns)}
    IN IF "str" \in ts THEN "object"
       ELSE IF "float64" \in ts THEN "float64"
       ELSE "int64"

\* the ItemSize bytes of value v stored as type t; byte k of the encoding
ByteOf(t, v, k) == <<t, v, k>>

ToBytes1(t, v) == [k \in 1..ItemSize |-> ByteOf(t, v, k)]

\* df.values.tobytes(): row-major, every cell cast to the common type
ToBytes(df) ==
    LET t == ValuesDType(df)
    IN Flatten([r \in 1..Len(df.data) |->
                  Flatten([c \in 1..Len(df.columns) |-> ToBytes1(t, df.data[r][c].v)])])

\* one element read back as type typ: the value when the bytes are the
\* encoding of a value of that type, and otherwise some other number (-1)
FromBytes1(bs, typ) ==
    IF bs = ToBytes1(typ, bs[1][2]) THEN Cell(typ, bs[1][2]) ELSE Cell(typ, -1)

\* the result of a call: a value, or the exception raised
Ok(v) == [ok |-> TRUE, val |-> v, err |-> "none"]
Raise(e) == [ok |-> FALSE, val |-> <<>>, err |-> e]

\* np.frombuffer(buffer, dtype=typ): fails unless whole elements
FromBuffer(buffer, typ) ==
    IF Len(buffer) % ItemSize # 0 THEN Raise("ValueError")
    ELSE Ok([k \in 1..(Len(buffer) \div ItemSize) |->
               FromBytes1(SubSeq(buffer, (k-1)*ItemSize + 1, k*ItemSize), typ)])

\* Reshape read column-major (order='F'), as a mistaken reshape would
Reshape_ColumnMajor(flat, rows, cols) ==
    IF Len(flat) # rows * cols THEN Raise("ValueError")
    ELSE Ok([r \in 1..rows |-> [c \in 1..cols |-> flat[(c-1)*rows + r]]])

\* .reshape(rows, cols): fails unless the element count is rows*cols
Reshape(flat, rows, cols) ==
    IF Len(flat) # rows * cols THEN Raise("ValueError")
    ELSE Ok([r \in 1..rows |-> [c \in 1..cols |-> flat[(r-1)*cols + c]]])

\* pd.DataFrame(data=data, columns=headers): fails unless one name per column
NewDataFrame(data, cols, headers) ==
    IF Len(headers) # cols THEN Raise("ValueError") ELSE Ok(DataFrame(headers, data))

\* lines 299-301: the table rebuilt from the bytes read, or the error raised
Reconstruct(buffer, typ, total_rows, fixed_total_columns, headers) ==
    IF typ = "unbound" THEN Raise("NameError")
    ELSE LET flat == FromBuffer(buffer, typ)
         IN IF ~flat.ok THEN flat
            ELSE LET data == Reshape(flat.val, total_rows, fixed_total_columns)
                 IN IF ~data.ok THEN data
                    ELSE NewDataFrame(data.val, fixed_total_columns, headers)

\* a write of bs through a handle at offset pos of a file holding old
WriteAt(old, pos, bs) ==
    LET n == IF pos + Len(bs) > Len(old) THEN pos + Len(bs) ELSE Len(old)
    IN [k \in 1..n |->
          IF k > pos /\ k <= pos + Len(bs) THEN bs[k - pos]
          ELSE IF k <= Len(old) THEN old[k]
          ELSE <<"zero", 0, 0>>]

\* the invocations of the assembler that may share the working directory
Runs == {1, 2}

\* the header variants an extractor may produce
Schemas == {<<"nRot">>, <<"a", "nRot">>, <<"a", "nRot", "b">>, <<"a", "b">>}

\* the value the extractor reports for column c of record i
FeatureValue(i, c) == 10 * i + c

\* record i as the extractor returns it: cells of type d, nRot a digit string
FeatureFrame(i, schema, d) ==
    DataFrame(schema,
              <<[c \in 1..Len(schema) |->
                   IF schema[c] = "nRot" THEN Cell("str", FeatureValue(i, c))
                   ELSE Cell(d, FeatureValue(i, c))]>>)

EmptyFrame == DataFrame(<<>>, <<>>)

\* utils/temp/features.bin before any run: no such file.  ino numbers the
\* files created under the path, so that a handle opened before the file was
\* removed and created again is told apart from a handle on the new file.
NoFile == [exists |-> FALSE, bytes |-> <<>>, ino |-> 0]

\* the bytes a write handle h still holds in its buffer reach the file it is
\* on, at the handle's offset; a file removed from the path since is out of
\* reach of the path
Flush(f, h) ==
    IF f.exists /\ f.ino = h.fd /\ h.buf # <<>>
    THEN [f EXCEPT !.bytes = WriteAt(@, h.wpos, h.buf)]
    ELSE f

\* the locals of one binary_concat call; fd is the file its write handle is
\* on, buf the bytes written and not yet flushed, wpos the offset they go to
BcIdle ==
    [pc |-> "idle", dfs |-> <<>>, headers |-> <<>>, i |-> 1, total_rows |-> 0,
     fixed_total_columns |-> 0, typ |-> "unbound", wpos |-> 0, fd |-> 0,
     buf |-> <<>>, master_df |-> EmptyFrame, err |-> "none"]

\* binary_concat(dfs, headers) entered
BcCall(dfs, headers) == [BcIdle EXCEPT !.pc = "open_w", !.dfs = dfs, !.headers = headers]

(***************************************************************************)
(* Numbers.  Predictions and their statistics are exact rationals <<n, d>> *)
(* in lowest terms with d > 0.                                             *)
(***************************************************************************)
Abs(x) == IF x < 0 THEN -x ELSE x

RECURSIVE Gcd(_, _)
Gcd(a, b) == IF b = 0 THEN a ELSE Gcd(b, a % b)

Rat(n, d) ==
    LET g == Gcd(Abs(n), Abs(d))
        s == IF d < 0 THEN -1 ELSE 1
    IN <<(s * n) \div g, (s * d) \div g>>

RatOf(n) == <<n, 1>>
RatAdd(x, y) == Rat(x[1] * y[2] + y[1] * x[2], x[2] * y[2])
RatSub(x, y) == Rat(x[1] * y[2] - y[1] * x[2], x[2] * y[2])
RatMul(x, y) == Rat(x[1] * y[1], x[2] * y[2])
RatDiv(x, n) == Rat(x[1], x[2] * n)
RatLe(x, y) == x[1] * y[2] <= y[1] * x[2]

RECURSIVE RatSum(_)
RatSum(s) == IF s = <<>> THEN RatOf(0) ELSE RatAdd(s[1], RatSum(Tail(s)))

RatMax(s) == CHOOSE x \in Range(s) : \A y \in Range(s) : RatLe(y, x)
RatMin(s) == CHOOSE x \in Range(s) : \A y \in Range(s) : RatLe(x, y)

(***************************************************************************)
(* Prediction tables: column names and rows of values.  A column name is   *)
(* <<family, kind, index>>: f'{family}_{i}' is <<family, "n", i>>.         *)
(***************************************************************************)
Families == <<"xgbscore_multi", "mlpscore_multi", "wdscore_multi">>

SubmodelColumn(model_name, i) == <<model_name, "n", i>>
BestAverageColumn(model_name) == <<model_name, "best_average", 0>>
RawColumn(model_name) == <<model_name, "", 0>>

\* the values of a row under the columns named, in the order named
SelectColumns(columns, row, names) ==
    [k \in 1..Len(names) |-> row[ColPos(columns, names[k])]]

\* the row mean taken as a row sum, as .sum(axis=1) in place of .mean(axis=1)
RowMean_Sum(vals) == RatSum(vals)

\* DataFrame.mean(axis=1) over one row: the sum over the count
RowMean(vals) == RatDiv(RatSum(vals), Len(vals))

\* model.predict on one row: the artifact's output for that row.  The
\* artifact is an external collaborator; it is a weight and the output a
\* residue of the row's cells, so that different artifacts and rows differ.
Predict(model, row) ==
    RatOf((model + SumSeq([c \in 1..Len(row) |-> row[c].v])) % 5)

(***************************************************************************)
(* Ensemble scorer: run_networks.                                          *)
(***************************************************************************)
\* one table of predictions: a column per submodel in load order (lines
\* 213-217), then the mean over model_columns (line 219)
run_networks(df, model_file, model_name) ==
    LET n == Len(model_file)
        model_columns == [i \in 1..n |-> SubmodelColumn(model_name, i)]
        y_pred == [r \in 1..Len(df) |-> [i \in 1..n |-> Predict(model_file[i], df[r])]]
    IN [columns |-> Append(model_columns, BestAverageColumn(model_name)),
        data |-> [r \in 1..Len(df) |->
                    Append(y_pred[r],
                           RowMean(SelectColumns(model_columns, y_pred[r], model_columns)))]]

(***************************************************************************)
(* score: the prediction table of one family over the feature table.       *)
(* A table is its value columns and its rows, a row holding the identity   *)
(* pair and the values.                                                    *)
(***************************************************************************)
PredictionRow(receptor, ligand, vals) ==
    [Receptor |-> receptor, Ligand |-> ligand, vals |-> vals]

score(model_name, model_file, features) ==
    LET n == Len(features.data)
    IN IF model_name = "xgbscore_multi"
       THEN [columns |-> <<RawColumn(model_name)>>,
             rows |-> [r \in 1..n |->
                         PredictionRow(features.Receptor[r], features.Ligand[r],
                                       <<Predict(model_file, features.data[r])>>)]]
       ELSE LET network_predictions == run_networks(features.data, model_file, model_name)
            IN [columns |-> network_predictions.columns,
                rows |-> [r \in 1..n |->
                            PredictionRow(features.Receptor[r], features.Ligand[r],
                                          network_predictions.data[r])]]

(***************************************************************************)
(* Consensus aggregator: the merge and the statistics at the end of        *)
(* scoring().                                                              *)
(***************************************************************************)
SameKey(a, b) == a.Receptor = b.Receptor /\ a.Ligand = b.Ligand

\* pd.merge(x, y, on=['Receptor','Ligand']): the default inner join; every
\* row of x, in order, paired with every row of y holding the same key
merge(x, y) ==
    [columns |-> x.columns \o y.columns,
     rows |-> Flatten([i \in 1..Len(x.rows) |->
                 LET hits == SelectIdx(y.rows, LAMBDA j : SameKey(x.rows[i], y.rows[j]))
                 IN [j \in 1..Len(hits) |->
                       PredictionRow(x.rows[i].Receptor, x.rows[i].Ligand,
                                     x.rows[i].vals \o hits[j].vals)]])]

\* functools.reduce(merge, model_results): left to right; empty raises
RECURSIVE FoldMerge(_, _)
FoldMerge(acc, rest) ==
    IF rest = <<>> THEN acc ELSE FoldMerge(merge(acc, rest[1]), Tail(rest))

reduce_merge(model_results) ==
    IF model_results = <<>> THEN Raise("TypeError")
    ELSE Ok(FoldMerge(model_results[1], Tail(model_results)))

\* the representative columns, lines 738-740
multi_models ==
    <<RawColumn("xgbscore_multi"),
      BestAverageColumn("mlpscore_multi"),
      BestAverageColumn("wdscore_multi")>>

ConsensusColumns ==
    <<<<"multi_consensus", "", 0>>,
      <<"multi_consensus_stdev", "", 0>>,
      <<"multi_consensus_range", "", 0>>>>

\* the square root of a rational q, kept exact as <<n, d, 2>>
Sqrt(q) == <<q[1], q[2], 2>>

\* the variance with divisor n - ddof
Variance(vals, ddof) ==
    LET n == Len(vals)
        mu == RowMean(vals)
        sq == [k \in 1..n |-> RatMul(RatSub(vals[k], mu), RatSub(vals[k], mu))]
    IN RatDiv(RatSum(sq), n - ddof)

\* the sample deviation, pandas' default ddof=1
RowStd_Sample(vals) == Sqrt(Variance(vals, 1))

\* .std(axis=1, ddof=0), line 743
RowStd(vals) == Sqrt(Variance(vals, 0))

\* .max(axis=1) - .min(axis=1), line 744
RowRange(vals) == RatSub(RatMax(vals), RatMin(vals))

\* lines 742-744 on one row
ConsensusOf(vals) == <<RowMean(vals), RowStd(vals), RowRange(vals)>>

\* lines 738-744: a missing representative column raises KeyError
consensus(merged) ==
    IF \E k \in 1..Len(multi_models) : ColPos(merged.columns, multi_models[k]) = 0
    THEN Raise("KeyError")
    ELSE Ok([columns |-> merged.columns \o ConsensusColumns,
             rows |-> [r \in 1..Len(merged.rows) |->
                         [merged.rows[r] EXCEPT
                             !.vals = @ \o ConsensusOf(
                                 SelectColumns(merged.columns, @, multi_models))]]])

\* lines 746-754: the concise column set
concise_view(table) ==
    LET names == multi_models \o ConsensusColumns
    IN [columns |-> names,
        rows |-> [r \in 1..Len(table.rows) |->
                    [table.rows[r] EXCEPT
                        !.vals = SelectColumns(table.columns, @, names)]]]

(***************************************************************************)
(* Paths and names.  A path is a sequence of components, a component a     *)
(* sequence of name pieces <<text, n>>: "ligand.pdbqt" is the pieces       *)
(* <<"ligand", 0>>, <<".pdbqt", 0>>, and a pose suffix is <<"_pose_", n>>. *)
(***************************************************************************)
Lit(w) == <<w, 0>>

\* os.path.join(dir, name)
path_join(dir, name) == Append(dir, name)

\* os.path.split(path): (head, tail)
path_split(path) ==
    IF path = <<>> THEN <<<<>>, <<>>>>
    ELSE <<SubSeq(path, 1, Len(path) - 1), path[Len(path)]>>

\* str.replace(old, new): every occurrence
str_replace(name, old, new) ==
    [k \in 1..Len(name) |-> IF name[k] = old THEN new ELSE name[k]]

\* the file names met in the input folders
LigandFiles ==
    {<<Lit("ligand"), Lit(".pdbqt")>>,
     <<Lit("ligand_b"), Lit(".pdbqt")>>,
     <<Lit("ligand"), Lit(".mol2")>>}

ReceptorFile == <<Lit("receptor"), Lit(".pdbqt")>>

\* the i-th folder listed under the input directory
Folder(i) == <<<<"complex", i>>>>

InputDir == <<<<Lit("data")>>>>
DockedDir == <<<<Lit("utils")>>, <<Lit("temp")>>, <<Lit("docked_pdbqt_files")>>>>

\* the ligand record texts met in the input files: no pose, one pose, two
\* different poses, two poses of the same text
PoseText(last) ==
    <<"MODEL", "SP", "1", "NL", "A", "NL", "A", "NL", last, "NL", "ENDMDL", "NL">>

FileTexts ==
    {<<"A", "NL">>,
     PoseText("A"),
     PoseText("A") \o PoseText("SP"),
     PoseText("A") \o PoseText("A")}

\* params['receptor'] and params['ligand'] as parse_args (lines 384-411) and
\* the dock branch of scoring (lines 693-695) leave them, for n listed names
ResolveLigands(mode, names) ==
    [i \in 1..Len(names) |->
        CASE mode = "dir" -> path_join(InputDir \o <<Folder(i)>>, names[i])
          [] mode = "screen" -> path_join(InputDir, names[i])
          [] mode = "dock" -> path_join(DockedDir, names[i])
          [] OTHER -> path_join(InputDir, names[i])]

ResolveReceptors(mode, names) ==
    [i \in 1..Len(names) |->
        CASE mode = "dir" -> path_join(InputDir \o <<Folder(i)>>, ReceptorFile)
          [] OTHER -> path_join(<<>>, ReceptorFile)]

(***************************************************************************)
(* Task enumerator: lines 706-715 of scoring.                              *)
(***************************************************************************)
\* zip(receptor, ligand, poses)
Zip3(a, b, c) ==
    LET n == IF Len(a) <= Len(b)
             THEN (IF Len(a) <= Len(c) THEN Len(a) ELSE Len(c))
             ELSE (IF Len(b) <= Len(c) THEN Len(b) ELSE Len(c))
    IN [i \in 1..n |-> <<a[i], b[i], c[i]>>]

\* product([x], [y], z): one triple per element of z
Product1(x, y, z) == [j \in 1..Len(z) |-> <<x, y, z[j]>>]

\* the work items when only the first pose is used (lines 709-710); a record
\* with no pose makes pose[0] raise IndexError
ItemsFirstPose(receptor, ligand, poses) ==
    IF \E i \in 1..Len(poses) : poses[i] = <<>> THEN Raise("IndexError")
    ELSE Ok(Zip3(receptor, ligand, [i \in 1..Len(poses) |-> poses[i][1]]))

\* the work items when every pose is used (lines 712-713)
ItemsAllPoses(receptor, ligand, poses) ==
    Ok(Flatten([i \in 1..Len(poses) |-> Product1(receptor[i], ligand[i], poses[i])]))

\* the two pose modes exchanged
Enumerate_Swapped(pose_1, receptor, ligand, poses) ==
    IF ~pose_1 THEN ItemsFirstPose(receptor, ligand, poses)
    ELSE ItemsAllPoses(receptor, ligand, poses)

Enumerate(pose_1, receptor, ligand, poses) ==
    IF pose_1 THEN ItemsFirstPose(receptor, ligand, poses)
    ELSE ItemsAllPoses(receptor, ligand, poses)

(***************************************************************************)
(* Worker: prepare_features.                                               *)
(***************************************************************************)
\* the extractor is a function of the pose text and the receptor path; its
\* output is identified here by a number computed from the two
TokCode(t) ==
    CASE t = "A" -> 1 [] t = "NL" -> 2 [] t = "SP" -> 3 [] t = "1" -> 4
      [] t = "ENDMDL" -> 5 [] OTHER -> 6

ExtractKey(lig_block, receptor) ==
    SumSeq([k \in 1..Len(lig_block) |-> k * TokCode(lig_block[k])])
        + 100 * SumSeq([k \in 1..Len(receptor) |-> receptor[k][1][2]])

\* the header every extract() call of one build returns
ExtractSchema == <<"a", "nRot", "b">>

extract(lig_block, receptor) ==
    FeatureFrame(ExtractKey(lig_block, receptor), ExtractSchema, "float64")

\* lines 447-462: the names and the features of one work item
prepare_features(item) ==
    LET receptor == item[1]
        ligand == item[2]
        name == path_split(ligand)[2]
        pose_number == item[3][1]
        lig_block == item[3][2]
        ligand_name == str_replace(name, Lit(".pdbqt"), pose_number)
        receptor_name == path_split(receptor)[2]
    IN <<receptor_name, ligand_name, extract(lig_block, receptor)>>

(***************************************************************************)
(* transform_df(df, single=False): the 58-profile column subset, scaled    *)
(* by the fitted scaler and put in the model's order.                      *)
(***************************************************************************)
for_scaler_58 == <<"a", "nRot", "b">>
models_58 == <<"b", "a", "nRot">>

\* scaler.transform on one cell
Scaled(cell) == Cell("scaled", cell.v)

\* the scaled table with its rows in the opposite order
transform_df_Reversed(df) ==
    IF \E k \in 1..Len(for_scaler_58) : ColPos(df.columns, for_scaler_58[k]) = 0
    THEN Raise("KeyError")
    ELSE Ok(DataFrame(models_58,
              [r \in 1..Len(df.data) |->
                 [k \in 1..Len(models_58) |->
                    Scaled(df.data[Len(df.data) + 1 - r][ColPos(df.columns, models_58[k])])]]))

transform_df(df) ==
    IF \E k \in 1..Len(for_scaler_58) : ColPos(df.columns, for_scaler_58[k]) = 0
    THEN Raise("KeyError")
    ELSE Ok(DataFrame(models_58,
              [r \in 1..Len(df.data) |->
                 [k \in 1..Len(models_58) |->
                    Scaled(df.data[r][ColPos(df.columns, models_58[k])])]]))

VARIABLES
    lig_text,            \* pose extractor: the ligand record text read
    pdbqt_pose_blocks,   \* pose extractor: the list returned
    pose_pc,             \* pose extractor: "idle", "call" or "returned"
    bc,                  \* assembler: per invocation, the locals of binary_concat
    file,                \* utils/temp/features.bin: whether it exists, its bytes
    net_in,              \* run_networks: its arguments df, model_file, model_name
    predictions,         \* run_networks: the table returned
    net_pc,              \* run_networks: "idle", "call" or "returned"
    params,              \* scoring: the params dictionary
    texts,               \* the text of the i-th ligand file
    pc,                  \* scoring: the statement reached
    receptor_ligand_args,\* scoring: the work items
    task,                \* pool: the state of each submitted item
    results,             \* multiprocess_wrapper: the results collected so far
    features,            \* scoring: the list returned by the pool
    multi_pose_features, \* scoring: the feature table with its identity columns
    model_results,       \* scoring: one prediction table per model
    merged_results,      \* scoring: the joined table
    scoring_function_results, \* __main__: what scoring() returned, if it did
    error                \* the exception that ended the run, or "none"

poseVars == <<lig_text, pdbqt_pose_blocks, pose_pc>>
bcVars == <<bc, file>>
netVars == <<net_in, predictions, net_pc>>
plVars == <<params, texts, pc, receptor_ligand_args, task, results, features,
            multi_pose_features, model_results, merged_results,
            scoring_function_results, error>>
vars == <<poseVars, bcVars, netVars, plVars>>

\* no table: scoring() has not returned
NoResult == Raise("none")

EmptyTable == [columns |-> <<>>, rows |-> <<>>]
EmptyFeatures == [columns |-> <<>>, data |-> <<>>, Receptor |-> <<>>, Ligand |-> <<>>]

\* params as parse_args leaves it when no model flag is given (lines 358-367)
Params(mode, pose_1, receptor, ligand, threads, concise) ==
    [mode |-> mode, pose_1 |-> pose_1, receptor |-> receptor, ligand |-> ligand,
     threads |-> threads, concise |-> concise,
     xgbscore_multi |-> TRUE, mlpscore_multi |-> TRUE, wdscore_multi |-> TRUE,
     num_networks |-> NumNetworks]

\* line 352: the model flags of the command line
ModelFlags == <<"-mlpscore_multi", "-wdscore_multi", "-xgbscore_multi">>

\* line 353
args_check(args) == [k \in 1..Len(ModelFlags) |-> ModelFlags[k] \in args]

\* lines 354-359 for the flags in args, p being params as it is when no model
\* flag is given: with a flag given the loop of line 355 stores the list
\* args_check under each flag, dash included, and the keys xgbscore_multi,
\* mlpscore_multi and wdscore_multi are not set
parse_args_models(p, args) ==
    IF \E k \in 1..Len(ModelFlags) : args_check(args)[k]
    THEN [key \in (DOMAIN p \ Range(Families)) \cup Range(ModelFlags) |->
             IF key \in Range(ModelFlags) THEN args_check(args) ELSE p[key]]
    ELSE p

PoseIdle == lig_text = <<>> /\ pdbqt_pose_blocks = <<>> /\ pose_pc = "idle"

AssemblerIdle == bc = [r \in Runs |-> BcIdle] /\ file = NoFile

NetworksIdle ==
    /\ net_in = [df |-> <<>>, model_file |-> <<>>, model_name |-> ""]
    /\ predictions = [columns |-> <<>>, data |-> <<>>]
    /\ net_pc = "idle"

\* the locals of scoring() before its first statement
ScoringLocalsUnset ==
    /\ receptor_ligand_args = <<>>
    /\ task = <<>>
    /\ results = <<>>
    /\ features = <<>>
    /\ multi_pose_features = EmptyFeatures
    /\ merged_results = EmptyTable
    /\ scoring_function_results = NoResult
    /\ error = "none"

ScoringIdle ==
    /\ params = Params("single", FALSE, <<>>, <<>>, 1, TRUE)
    /\ texts = <<>>
    /\ pc = "idle"
    /\ model_results = <<>>
    /\ ScoringLocalsUnset

(***************************************************************************)
(* Pose extractor taken alone.                                             *)
(***************************************************************************)
InitPose ==
    /\ lig_text \in SeqsUpTo(Tok, MaxTextLen)
    /\ pdbqt_pose_blocks = <<>>
    /\ pose_pc = "call"
    /\ AssemblerIdle
    /\ NetworksIdle
    /\ ScoringIdle

\* one call of multiple_pose_check on the record
PoseCheck ==
    /\ pose_pc = "call"
    /\ pdbqt_pose_blocks' = multiple_pose_check(lig_text)
    /\ pose_pc' = "returned"
    /\ UNCHANGED <<lig_text, bcVars, netVars, plVars>>

NextPose == PoseCheck

SpecPose == InitPose /\ [][NextPose]_vars

(***************************************************************************)
(* Streaming assembler: binary_concat, one step per file operation.        *)
(***************************************************************************)
\* line 289-290: total_rows = 0; open(..., 'wb') truncates the file under the
\* path, or creates a new one when there is none
BcOpenWrite(r) ==
    /\ bc[r].pc = "open_w"
    /\ file' = [exists |-> TRUE, bytes |-> <<>>,
                ino |-> IF file.exists THEN file.ino ELSE file.ino + 1]
    /\ bc' = [bc EXCEPT ![r] = [@ EXCEPT !.pc = "loop", !.total_rows = 0,
                                          !.i = 1, !.wpos = 0, !.fd = file'.ino]]
    /\ UNCHANGED <<poseVars, netVars, plVars>>

\* lines 291-296: one iteration of the loop.  binary_store is a buffered
\* writer: the bytes of a record reach the file at this write or stay in the
\* buffer until a later flush, as the sizes have it.  A record without an nRot
\* column raises KeyError at line 292 and the with statement closes the file,
\* which flushes the buffer.
BcWrite(r) ==
    /\ bc[r].pc = "loop"
    /\ bc[r].i <= Len(bc[r].dfs)
    /\ LET df0 == bc[r].dfs[bc[r].i]
       IN IF ~HasColumn(df0, "nRot")
          THEN /\ file' = Flush(file, bc[r])
               /\ bc' = [bc EXCEPT ![r] = [@ EXCEPT !.pc = "raised", !.err = "KeyError",
                                                     !.wpos = @ + Len(bc[r].buf),
                                                     !.buf = <<>>]]
          ELSE LET df == CoerceNRot(df0)
                   h == [bc[r] EXCEPT !.dfs[bc[r].i] = df,
                                      !.fixed_total_columns = Shape(df)[2],
                                      !.total_rows = @ + Shape(df)[1],
                                      !.typ = ValuesDType(df),
                                      !.buf = @ \o ToBytes(df),
                                      !.i = @ + 1]
               IN \E flushed \in BOOLEAN :
                     IF flushed
                     THEN /\ file' = Flush(file, h)
                          /\ bc' = [bc EXCEPT ![r] = [h EXCEPT !.wpos = @ + Len(h.buf),
                                                               !.buf = <<>>]]
                     ELSE /\ file' = file
                          /\ bc' = [bc EXCEPT ![r] = h]
    /\ UNCHANGED <<poseVars, netVars, plVars>>

\* the loop is exhausted and the with statement closes the file, which
\* flushes the buffer
BcEndLoop(r) ==
    /\ bc[r].pc = "loop"
    /\ bc[r].i > Len(bc[r].dfs)
    /\ file' = Flush(file, bc[r])
    /\ bc' = [bc EXCEPT ![r] = [@ EXCEPT !.pc = "open_r", !.wpos = @ + Len(bc[r].buf),
                                          !.buf = <<>>]]
    /\ UNCHANGED <<poseVars, netVars, plVars>>

\* lines 298-301: reopen, read everything, rebuild the table
BcReadBack(r) ==
    /\ bc[r].pc = "open_r"
    /\ IF ~file.exists
       THEN bc' = [bc EXCEPT ![r] = [@ EXCEPT !.pc = "raised", !.err = "FileNotFoundError"]]
       ELSE LET res == Reconstruct(file.bytes, bc[r].typ, bc[r].total_rows,
                                   bc[r].fixed_total_columns, bc[r].headers)
            IN IF res.ok
               THEN bc' = [bc EXCEPT ![r] = [@ EXCEPT !.pc = "remove", !.master_df = res.val]]
               ELSE bc' = [bc EXCEPT ![r] = [@ EXCEPT !.pc = "raised", !.err = res.err]]
    /\ UNCHANGED <<file, poseVars, netVars, plVars>>

\* lines 302-303: os.remove, then return master_df
BcRemove(r) ==
    /\ bc[r].pc = "remove"
    /\ IF ~file.exists
       THEN /\ bc' = [bc EXCEPT ![r] = [@ EXCEPT !.pc = "raised", !.err = "FileNotFoundError",
                                                  !.master_df = EmptyFrame]]
            /\ UNCHANGED file
       ELSE /\ bc' = [bc EXCEPT ![r] = [@ EXCEPT !.pc = "returned"]]
            /\ file' = [file EXCEPT !.exists = FALSE, !.bytes = <<>>]
    /\ UNCHANGED <<poseVars, netVars, plVars>>

binary_concat(r) ==
    \/ BcOpenWrite(r)
    \/ BcWrite(r)
    \/ BcEndLoop(r)
    \/ BcReadBack(r)
    \/ BcRemove(r)

\* the assembler taken alone: one invocation over records drawn from the
\* header variants and numeric types, the headers those of the first record
InitAssemble ==
    /\ PoseIdle
    /\ NetworksIdle
    /\ ScoringIdle
    /\ file = NoFile
    /\ \E n \in 0..MaxRecs :
         \E sch \in [1..n -> Schemas], dt \in [1..n -> DTypes] :
            LET in == [i \in 1..n |-> FeatureFrame(i, sch[i], dt[i])]
                hd == IF n = 0 THEN <<>> ELSE in[1].columns
            IN bc = [r \in Runs |-> IF r = 1 THEN BcCall(in, hd) ELSE BcIdle]

NextAssemble == binary_concat(1)

SpecAssemble == InitAssemble /\ [][NextAssemble]_vars

\* the feature records of the run r of two: same-schema records with an nRot
\* column, which binary_concat assembles when it runs alone, numbered apart
\* from the other run's
RunFrames(r, n, schema, d) ==
    [i \in 1..n |-> FeatureFrame((r - 1) * MaxRecs + i, schema, d)]

\* two scoring runs in one working directory, both about to assemble: the
\* path utils/temp/features.bin (lines 290, 298, 302) is the same for both
InitConcurrent ==
    /\ PoseIdle
    /\ NetworksIdle
    /\ ScoringIdle
    /\ file = NoFile
    /\ \E n \in [Runs -> 1..MaxRecs],
          sch \in [Runs -> {x \in Schemas : "nRot" \in Range(x)}],
          dt \in [Runs -> DTypes] :
         bc = [r \in Runs |-> BcCall(RunFrames(r, n[r], sch[r], dt[r]), sch[r])]

NextConcurrent == \E r \in Runs : binary_concat(r)

SpecConcurrent == InitConcurrent /\ [][NextConcurrent]_vars

(***************************************************************************)
(* run_networks taken alone: a table of up to MaxRows one-cell rows and a  *)
(* family of up to MaxNets artifacts.                                      *)
(***************************************************************************)
InitNetworks ==
    /\ PoseIdle
    /\ AssemblerIdle
    /\ ScoringIdle
    /\ \E df \in SeqsUpTo({<<Cell("scaled", v)>> : v \in 0..2}, MaxRows),
          n \in 1..MaxNets, name \in {"mlpscore_multi", "wdscore_multi"} :
         \E model_file \in [1..n -> 0..4] :
            net_in = [df |-> df, model_file |-> model_file, model_name |-> name]
    /\ predictions = [columns |-> <<>>, data |-> <<>>]
    /\ net_pc = "call"

RunNetworks ==
    /\ net_pc = "call"
    /\ predictions' = run_networks(net_in.df, net_in.model_file, net_in.model_name)
    /\ net_pc' = "returned"
    /\ UNCHANGED <<net_in, poseVars, bcVars, plVars>>

NextNetworks == RunNetworks

SpecNetworks == InitNetworks /\ [][NextNetworks]_vars

(***************************************************************************)
(* scoring(params): enumeration, the worker pool, the assembler, the       *)
(* scorer and the consensus.                                               *)
(***************************************************************************)
Modes == {"dir", "screen", "dock", "single"}

Injective(f) == \A i, j \in DOMAIN f : i # j => f[i] # f[j]

\* listed names are distinct within one directory (screen, dock); in dir
\* mode every folder holds its own files, so names may repeat across folders.
\* The run is started with -threads 2: a pool of one worker behaves as a
\* pool of two in which the second worker never takes an item.
Init ==
    /\ PoseIdle
    /\ AssemblerIdle
    /\ NetworksIdle
    /\ \E mode \in Modes, pose_1 \in BOOLEAN, threads \in {2}, concise \in BOOLEAN,
          n \in 1..MaxLigands :
         \E names \in [1..n -> LigandFiles], txt \in [1..n -> FileTexts] :
            /\ mode = "single" => n = 1
            /\ mode \in {"screen", "dock"} => Injective(names)
            /\ params = Params(mode, pose_1, ResolveReceptors(mode, names),
                               ResolveLigands(mode, names), threads, concise)
            /\ texts = txt
    /\ pc = "start"
    /\ model_results = <<>>
    /\ ScoringLocalsUnset

\* an exception reaches the top level: scoring() returns nothing
Fail(e) ==
    /\ pc' = "failed"
    /\ error' = e
    /\ UNCHANGED <<params, texts, receptor_ligand_args, task, results, features,
                   multi_pose_features, model_results, merged_results,
                   scoring_function_results>>

\* lines 706-715: the poses of every record, then the work items
EnumerateTasks ==
    /\ pc = "start"
    /\ LET poses == [i \in 1..Len(params.ligand) |-> multiple_pose_check(texts[i])]
           items == Enumerate(params.pose_1, params.receptor, params.ligand, poses)
       IN IF items.ok
          THEN /\ receptor_ligand_args' = items.val
               /\ task' = [k \in 1..Len(items.val) |-> "queued"]
               /\ pc' = "pool"
               /\ UNCHANGED <<params, texts, results, features, multi_pose_features,
                              model_results, merged_results, scoring_function_results,
                              error>>
          ELSE /\ Fail(items.err)
    /\ UNCHANGED <<poseVars, bcVars, netVars>>

\* line 512
processes == IF params.threads <= CpuCount THEN params.threads ELSE CpuCount

Running == {k \in 1..Len(task) : task[k] = "running"}

\* a free worker takes the next item, in submission order
WorkerTakes ==
    /\ pc = "pool"
    /\ Cardinality(Running) < processes
    /\ \E k \in 1..Len(task) :
          /\ task[k] = "queued"
          /\ \A j \in 1..(k-1) : task[j] # "queued"
          /\ task' = [task EXCEPT ![k] = "running"]
    /\ UNCHANGED <<params, texts, pc, receptor_ligand_args, results, features,
                   multi_pose_features, model_results, merged_results,
                   scoring_function_results, error>>
    /\ UNCHANGED <<poseVars, bcVars, netVars>>

\* prepare_features returns for item k
WorkerReturns(k) ==
    /\ pc = "pool"
    /\ task[k] = "running"
    /\ task' = [task EXCEPT ![k] = "done"]
    /\ UNCHANGED <<params, texts, pc, receptor_ligand_args, results, features,
                   multi_pose_features, model_results, merged_results,
                   scoring_function_results, error>>
    /\ UNCHANGED <<poseVars, bcVars, netVars>>

\* the extractor raises for item k
WorkerRaises(k) ==
    /\ pc = "pool"
    /\ task[k] = "running"
    /\ task' = [task EXCEPT ![k] = "raised"]
    /\ UNCHANGED <<params, texts, pc, receptor_ligand_args, results, features,
                   multi_pose_features, model_results, merged_results,
                   scoring_function_results, error>>
    /\ UNCHANGED <<poseVars, bcVars, netVars>>

\* line 514: list() takes the next result of imap, in submission order
PoolCollect ==
    /\ pc = "pool"
    /\ Len(results) < Len(task)
    /\ task[Len(results) + 1] = "done"
    /\ results' = Append(results, prepare_features(receptor_ligand_args[Len(results) + 1]))
    /\ UNCHANGED <<params, texts, pc, receptor_ligand_args, task, features,
                   multi_pose_features, model_results, merged_results,
                   scoring_function_results, error>>
    /\ UNCHANGED <<poseVars, bcVars, netVars>>

\* the worker's exception swallowed and the item's record taken anyway
PoolRaises_Swallowed ==
    /\ pc = "pool"
    /\ Len(results) < Len(task)
    /\ task[Len(results) + 1] = "raised"
    /\ results' = Append(results, prepare_features(receptor_ligand_args[Len(results) + 1]))
    /\ UNCHANGED <<params, texts, pc, receptor_ligand_args, task, features,
                   multi_pose_features, model_results, merged_results,
                   scoring_function_results, error>>
    /\ UNCHANGED <<poseVars, bcVars, netVars>>

\* line 514: the next result is the worker's exception, re-raised in the
\* caller; leaving the with block terminates the pool
PoolRaises ==
    /\ pc = "pool"
    /\ Len(results) < Len(task)
    /\ task[Len(results) + 1] = "raised"
    /\ Fail("WorkerError")
    /\ UNCHANGED <<poseVars, bcVars, netVars>>

\* lines 515-518 and 716: every result collected
PoolReturns ==
    /\ pc = "pool"
    /\ Len(results) = Len(task)
    /\ features' = results
    /\ pc' = "assemble"
    /\ UNCHANGED <<params, texts, receptor_ligand_args, task, results,
                   multi_pose_features, model_results, merged_results,
                   scoring_function_results, error>>
    /\ UNCHANGED <<poseVars, bcVars, netVars>>

multiprocess_wrapper ==
    \/ WorkerTakes
    \/ \E k \in 1..Len(task) : WorkerReturns(k)
    \/ \E k \in 1..Len(task) : WorkerRaises(k)
    \/ PoolCollect
    \/ PoolRaises
    \/ PoolReturns

\* lines 717-718: the headers of the first record, then binary_concat is entered
StartAssemble ==
    /\ pc = "assemble"
    /\ IF features = <<>>
       THEN /\ Fail("IndexError")
            /\ UNCHANGED bcVars
       ELSE /\ bc' = [bc EXCEPT ![1] =
                        BcCall([i \in 1..Len(features) |-> features[i][3]],
                               features[1][3].columns)]
            /\ pc' = "concat"
            /\ UNCHANGED <<file, params, texts, receptor_ligand_args, task, results,
                           features, multi_pose_features, model_results,
                           merged_results, scoring_function_results, error>>
    /\ UNCHANGED <<poseVars, netVars>>

\* line 718 returns or raises; lines 719-721: the table is scaled and the
\* identity columns attached from the same list of records
AttachIdentity ==
    /\ pc = "concat"
    /\ bc[1].pc \in {"returned", "raised"}
    /\ IF bc[1].pc = "raised" THEN Fail(bc[1].err)
       ELSE LET t == transform_df(bc[1].master_df)
            IN IF ~t.ok THEN Fail(t.err)
               ELSE IF Len(t.val.data) # Len(features) THEN Fail("ValueError")
               ELSE /\ multi_pose_features' =
                          [columns |-> t.val.columns, data |-> t.val.data,
                           Receptor |-> [i \in 1..Len(features) |-> features[i][1]],
                           Ligand |-> [i \in 1..Len(features) |-> features[i][2]]]
                    /\ pc' = "models"
                    /\ UNCHANGED <<params, texts, receptor_ligand_args, task, results,
                                   features, model_results, merged_results,
                                   scoring_function_results, error>>
    /\ UNCHANGED <<poseVars, bcVars, netVars>>

\* the artifacts of a family: the booster, or the first n ranked submodels
Ranking(model_name) == IF model_name = "mlpscore_multi" THEN <<1, 2, 3, 4>> ELSE <<2, 4, 1, 3>>

\* lines 573-617: the models requested, in the order they are loaded
prepare_models(p) ==
    (IF p.xgbscore_multi THEN <<<<"xgbscore_multi", 3>>>> ELSE <<>>)
    \o (IF p.mlpscore_multi
        THEN <<<<"mlpscore_multi", SubSeq(Ranking("mlpscore_multi"), 1, p.num_networks)>>>>
        ELSE <<>>)
    \o (IF p.wdscore_multi
        THEN <<<<"wdscore_multi", SubSeq(Ranking("wdscore_multi"), 1, p.num_networks)>>>>
        ELSE <<>>)

\* lines 723-730: the models are loaded, params['xgbscore_multi'] at line 575
\* raising KeyError when the key is not set, and every model scores the
\* feature table
ScoreModels ==
    /\ pc = "models"
    /\ IF ~(Range(Families) \subseteq DOMAIN params)
       THEN Fail("KeyError")
       ELSE /\ LET models == prepare_models(params)
               IN model_results' =
                     [m \in 1..Len(models) |->
                         score(models[m][1], models[m][2], multi_pose_features)]
            /\ pc' = "merge"
            /\ UNCHANGED <<params, texts, receptor_ligand_args, task, results, features,
                           multi_pose_features, merged_results, scoring_function_results,
                           error>>
    /\ UNCHANGED <<poseVars, bcVars, netVars>>

\* line 736
MergeResults ==
    /\ pc = "merge"
    /\ LET m == reduce_merge(model_results)
       IN IF ~m.ok THEN Fail(m.err)
          ELSE /\ merged_results' = m.val
               /\ pc' = "consensus"
               /\ UNCHANGED <<params, texts, receptor_ligand_args, task, results,
                              features, multi_pose_features, model_results,
                              scoring_function_results, error>>
    /\ UNCHANGED <<poseVars, bcVars, netVars>>

\* lines 738-756: the consensus columns, the concise view, the return
ConsensusReturn ==
    /\ pc = "consensus"
    /\ LET c == consensus(merged_results)
       IN IF ~c.ok THEN Fail(c.err)
          ELSE LET out == IF params.concise THEN concise_view(c.val) ELSE c.val
               IN /\ merged_results' = out
                  /\ scoring_function_results' = Ok(out)
                  /\ pc' = "returned"
                  /\ UNCHANGED <<params, texts, receptor_ligand_args, task, results,
                                 features, multi_pose_features, model_results, error>>
    /\ UNCHANGED <<poseVars, bcVars, netVars>>

Next ==
    \/ EnumerateTasks
    \/ multiprocess_wrapper
    \/ StartAssemble
    \/ binary_concat(1)
    \/ AttachIdentity
    \/ ScoreModels
    \/ MergeResults
    \/ ConsensusReturn

Spec == Init /\ [][Next]_vars

(***************************************************************************)
(* The consensus aggregator taken alone: lines 736-756 over three          *)
(* prediction tables drawn with up to MaxRows rows each.                   *)
(***************************************************************************)
Pair(n) == <<ReceptorFile, <<Lit("ligand"), PoseSuffix(n)>>>>

Pairs == {Pair(1), Pair(2)}

\* the value a family reports for a pair, given its value v for Pair(1)
JoinValue(pair, v) == IF pair = Pair(1) THEN v ELSE 8 - v

\* a family's table over the pairs listed: one submodel, so that the best
\* average is the submodel's value
FamilyTable(model_name, keys, v) ==
    [columns |-> IF model_name = "xgbscore_multi" THEN <<RawColumn(model_name)>>
                 ELSE <<SubmodelColumn(model_name, 1), BestAverageColumn(model_name)>>,
     rows |-> [r \in 1..Len(keys) |->
                 PredictionRow(keys[r][1], keys[r][2],
                     IF model_name = "xgbscore_multi"
                     THEN <<RatOf(JoinValue(keys[r], v))>>
                     ELSE <<RatOf(JoinValue(keys[r], v)), RatOf(JoinValue(keys[r], v))>>)]]

InitJoin ==
    /\ PoseIdle
    /\ AssemblerIdle
    /\ NetworksIdle
    /\ \E concise \in BOOLEAN : params = Params("single", FALSE, <<>>, <<>>, 1, concise)
    /\ texts = <<>>
    /\ pc = "merge"
    /\ \E keys \in [1..3 -> SeqsUpTo(Pairs, MaxRows)], v \in [1..3 -> 3..5] :
          model_results = [m \in 1..3 |-> FamilyTable(Families[m], keys[m], v[m])]
    /\ ScoringLocalsUnset

NextJoin == MergeResults \/ ConsensusReturn

SpecJoin == InitJoin /\ [][NextJoin]_vars

(***************************************************************************)
(* The scorer and the aggregator taken alone: lines 723-756 over a feature *)
(* table of up to MaxRows one-cell rows, for every set of model flags on   *)
(* the command line.                                                       *)
(***************************************************************************)
InitFamilies ==
    /\ PoseIdle
    /\ AssemblerIdle
    /\ NetworksIdle
    /\ \E concise \in BOOLEAN, args \in SUBSET Range(ModelFlags) :
          params = parse_args_models(Params("single", FALSE, <<>>, <<>>, 1, concise), args)
    /\ texts = <<>>
    /\ pc = "models"
    /\ \E keys \in SeqsUpTo(Pairs, MaxRows) \ {<<>>} :
         \E v \in [1..Len(keys) -> 0..2] :
            multi_pose_features =
                [columns |-> models_58,
                 data |-> [r \in 1..Len(keys) |-> <<Cell("scaled", v[r])>>],
                 Receptor |-> [r \in 1..Len(keys) |-> keys[r][1]],
                 Ligand |-> [r \in 1..Len(keys) |-> keys[r][2]]]
    /\ model_results = <<>>
    /\ receptor_ligand_args = <<>>
    /\ task = <<>>
    /\ results = <<>>
    /\ features = <<>>
    /\ merged_results = EmptyTable
    /\ scoring_function_results = NoResult
    /\ error = "none"

NextFamilies == ScoreModels \/ MergeResults \/ ConsensusReturn

SpecFamilies == InitFamilies /\ [][NextFamilies]_vars

\* the segments of the record that keep at least 3 lines, as the claim counts them
ValidSegments(text) ==
    LET segs == Split(text, "MODEL")
    IN {k \in 1..Len(segs) : Len(clean_lines(segs[k])) >= 3}

\* C1: the extractor returns exactly K entries for K valid segments, the i-th
\* entry carries the suffix _pose_i, and the suffixes are pairwise distinct,
\* also when two retained blocks have the same text.
C1_PoseNumbering ==
    pose_pc = "returned" =>
        /\ Len(pdbqt_pose_blocks) = Cardinality(ValidSegments(lig_text))
        /\ \A i \in 1..Len(pdbqt_pose_blocks) : pdbqt_pose_blocks[i][1] = PoseSuffix(i)
        /\ \A i, j \in 1..Len(pdbqt_pose_blocks) :
               i # j => pdbqt_pose_blocks[i][1] # pdbqt_pose_blocks[j][1]

\* the records one invocation was given (their cells after the coercion)
SameColumnCount(r) ==
    \A i \in 1..Len(bc[r].dfs) : Len(bc[r].dfs[i].columns) = Len(bc[r].dfs[1].columns)

\* C2: when some record's column count differs from the first record's, the
\* assembly fails and no table is returned, also when only a middle record differs.
C2_MismatchedColumnsFail ==
    \A r \in Runs : bc[r].pc \in {"remove", "returned"} => SameColumnCount(r)

\* the records share one column set and, once coerced, one numeric type
SameSchema(r) ==
    /\ Len(bc[r].dfs) >= 1
    /\ \A i \in 1..Len(bc[r].dfs) :
          /\ bc[r].dfs[i].columns = bc[r].dfs[1].columns
          /\ ValuesDType(bc[r].dfs[i]) = ValuesDType(bc[r].dfs[1])

\* the rows of the records in write order
RowsWritten(r) == Flatten([i \in 1..Len(bc[r].dfs) |-> bc[r].dfs[i].data])

C9_BestAverage ==
    net_pc = "returned" =>
        LET n == Len(net_in.model_file)
        IN /\ predictions.columns =
                 [i \in 1..(n + 1) |->
                    IF i <= n THEN SubmodelColumn(net_in.model_name, i)
                    ELSE BestAverageColumn(net_in.model_name)]
           /\ Len(predictions.data) = Len(net_in.df)
           /\ \A r \in 1..Len(predictions.data) :
                 /\ Len(predictions.data[r]) = n + 1
                 /\ \A i \in 1..n :
                       predictions.data[r][i] = Predict(net_in.model_file[i], net_in.df[r])
                 /\ RatMul(predictions.data[r][n + 1], RatOf(n))
                       = RatSum(SubSeq(predictions.data[r], 1, n))

\* a family of three submodels returned a row whose best average is not whole
C9_Witness ==
    /\ net_pc = "returned"
    /\ Len(net_in.model_file) = 3
    /\ \E r \in 1..Len(predictions.data) : predictions.data[r][4][2] = 3

\* the identity pairs of table m that table k has no row for
MissingPairs(m, k) ==
    {i \in 1..Len(model_results[m].rows) :
        \A j \in 1..Len(model_results[k].rows) :
            ~SameKey(model_results[m].rows[i], model_results[k].rows[j])}

PosesOf(i) == multiple_pose_check(texts[i])

\* C5: a ligand record with zero retained poses ends the run with an error and
\* no result table, with the first-pose-only flag set and without it.
C5_EmptyPosesAreFatal ==
    (pc # "idle" /\ \E i \in 1..Len(texts) : PosesOf(i) = <<>>) =>
        /\ pc # "returned"
        /\ scoring_function_results = NoResult

\* the poses of every ligand record of the run, in record order
AllPoses == [i \in 1..Len(texts) |-> PosesOf(i)]

\* the number of work items before those of record i
ItemsBefore(poses, i) == SumSeq([k \in 1..(i-1) |-> Len(poses[k])])

\* the work items claimed for a screen over the records' poses
ScreenItems(poses) ==
    LET N == Len(params.ligand)
    IN IF params.pose_1
       THEN /\ Len(receptor_ligand_args') = N
            /\ \A i \in 1..N :
                  receptor_ligand_args'[i] =
                      <<params.receptor[i], params.ligand[i], poses[i][1]>>
       ELSE /\ Len(receptor_ligand_args') = SumSeq([i \in 1..N |-> Len(poses[i])])
            /\ \A i \in 1..N : \A j \in 1..Len(poses[i]) :
                  receptor_ligand_args'[ItemsBefore(poses, i) + j] =
                      <<params.receptor[i], params.ligand[i], poses[i][j]>>

\* C6: in screen mode over N records with p_i >= 1 poses, the work items are
\* N, one per record with its first pose, when first-pose-only is set, and
\* otherwise the sum of the p_i, every pose of every record exactly once:
\* the enumeration step leaves exactly these items, and no later step of the
\* run changes them.
C6_ScreenTaskCount ==
    [][/\ (pc = "start" /\ params.mode = "screen"
            /\ \A i \in 1..Len(texts) : Len(PosesOf(i)) >= 1) =>
               (pc' = "pool" /\ ScreenItems(AllPoses))
       /\ pc \notin {"idle", "start"} =>
               receptor_ligand_args' = receptor_ligand_args]_vars

\* a screen over two records of one and two poses, every pose a work item
C6_Witness ==
    /\ pc = "pool"
    /\ params.mode = "screen"
    /\ ~params.pose_1
    /\ Len(texts) = 2
    /\ Len(PosesOf(1)) = 1
    /\ Len(PosesOf(2)) = 2
    /\ Len(receptor_ligand_args) = 3

\* C7: two distinct work items never produce feature records with the same
\* (receptor_name, ligand_name) pair, in every input mode.
C7_IdentityLossless ==
    \A k, l \in 1..Len(features) :
        receptor_ligand_args[k] # receptor_ligand_args[l] =>
            <<features[k][1], features[k][2]>> # <<features[l][1], features[l][2]>>

\* C8: once the extractor has raised for an item, the run can only fail: the
\* pool never returns, no table is returned, the records of the items that
\* succeeded go nowhere, and the run is not stuck before it fails.
C8_WorkerFailureFatal ==
    \A k \in 1..Len(task) :
        task[k] = "raised" =>
            /\ pc \in {"pool", "failed"}
            /\ scoring_function_results = NoResult
            /\ features = <<>>
            /\ Len(results) < k
            /\ pc = "pool" => ENABLED multiprocess_wrapper

\* the run failed on the second item after the first item's record was collected
C8_Witness ==
    /\ pc = "failed"
    /\ error = "WorkerError"
    /\ Len(results) >= 1
    /\ \E k \in 1..Len(task) : task[k] = "raised"
    /\ \E k \in 1..Len(task) : task[k] = "done"

\* the representative values of one row of the returned table
Representatives(table, r) == SelectColumns(table.columns, table.rows[r].vals, multi_models)

ConsensusValues(table, r) == SelectColumns(table.columns, table.rows[r].vals, ConsensusColumns)

SquaredDeviations(vals, mu) ==
    [k \in 1..Len(vals) |-> RatMul(RatSub(vals[k], mu), RatSub(vals[k], mu))]

\* C10: in every output row the consensus mean is the arithmetic mean of the
\* families' representative values, the range is max minus min and not
\* negative, the stdev is the population deviation (its square times the count
\* is the sum of squared deviations), and min <= mean <= max; for the values
\* 3, 5, 4 the mean is 4, the range 2 and the squared stdev 2/3.
C10_ConsensusStatistics ==
    pc = "returned" =>
        LET table == scoring_function_results.val
        IN \A r \in 1..Len(table.rows) :
              LET reps == Representatives(table, r)
                  stats == ConsensusValues(table, r)
                  mean == stats[1]
                  stdev == stats[2]
                  range == stats[3]
              IN /\ Len(reps) = 3
                 /\ RatMul(mean, RatOf(3)) = RatSum(reps)
                 /\ \E hi, lo \in Range(reps) :
                       /\ \A v \in Range(reps) : RatLe(lo, v) /\ RatLe(v, hi)
                       /\ range = RatSub(hi, lo)
                       /\ RatLe(lo, mean) /\ RatLe(mean, hi)
                 /\ RatLe(RatOf(0), range)
                 /\ stdev[3] = 2
                 /\ RatMul(<<stdev[1], stdev[2]>>, RatOf(3))
                       = RatSum(SquaredDeviations(reps, mean))
                 /\ reps = <<RatOf(3), RatOf(5), RatOf(4)>> =>
                       /\ mean = RatOf(4)
                       /\ range = RatOf(2)
                       /\ stdev = Sqrt(<<2, 3>>)

\* a row with the representative values 3, 5, 4 was returned
C10_Witness ==
    /\ pc = "returned"
    /\ \E r \in 1..Len(scoring_function_results.val.rows) :
          Representatives(scoring_function_results.val, r)
              = <<RatOf(3), RatOf(5), RatOf(4)>>

\* the invocation r of binary_concat has finished: it returned or it raised
Finished(r) == bc[r].pc \in {"returned", "raised"}

\* C11: once binary_concat has finished, with a table or with an error, the
\* scratch file utils/temp/features.bin no longer exists.
C11_ScratchReleased ==
    Finished(1) => ~file.exists

\* C12: of two runs assembling in the same working directory, under every
\* interleaving of their file steps, each finishes with a table of exactly the
\* rows it wrote itself: neither has its buffer truncated, overwritten or
\* deleted by the other.
C12_BufferPrivate ==
    \A r \in Runs :
        Finished(r) => /\ bc[r].pc = "returned"
                       /\ bc[r].master_df.data = RowsWritten(r)

\* the record the worker returns for the k-th work item
RecordOf(k) == prepare_features(receptor_ligand_args[k])

\* the feature table carries identity columns since line 721
IdentityAttached == pc \in {"models", "merge", "consensus", "returned"}

\* C13: whatever the order in which the workers finish, the records are
\* collected in the order of the work items, and row k of the feature table
\* holds the scaled features of work item k next to the Receptor and Ligand
\* names of that same item.
C13_IdentityFollowsFeatures ==
    /\ \A k \in 1..Len(results) : results[k] = RecordOf(k)
    /\ \A k \in 1..Len(features) : features[k] = RecordOf(k)
    /\ IdentityAttached =>
          /\ Len(multi_pose_features.data) = Len(receptor_ligand_args)
          /\ \A k \in 1..Len(receptor_ligand_args) :
                /\ multi_pose_features.Receptor[k] = RecordOf(k)[1]
                /\ multi_pose_features.Ligand[k] = RecordOf(k)[2]
                /\ multi_pose_features.data[k] = transform_df(RecordOf(k)[3]).val.data[1]

\* a feature table of two rows with different features and different names
C13_Witness ==
    /\ pc = "models"
    /\ Len(multi_pose_features.data) = 2
    /\ multi_pose_features.data[1] # multi_pose_features.data[2]
    /\ multi_pose_features.Ligand[1] # multi_pose_features.Ligand[2]

\* the command-line flag of a family
FlagOf(family) ==
    CASE family = "xgbscore_multi" -> "-xgbscore_multi"
      [] family = "mlpscore_multi" -> "-mlpscore_multi"
      [] family = "wdscore_multi" -> "-wdscore_multi"

\* the families the command line asked for, in the order they are loaded: the
\* flagged ones, or all three when no flag was given
Requested ==
    LET flagged == Range(ModelFlags) \subseteq DOMAIN params
        given == IF flagged
                 THEN {ModelFlags[k] : k \in {j \in 1..Len(ModelFlags) :
                                                params["-xgbscore_multi"][j]}}
                 ELSE Range(ModelFlags)
    IN SelectSeq(Families, LAMBDA f : FlagOf(f) \in given)

\* the representative column of a family
Representative(family) ==
    IF family = "xgbscore_multi" THEN RawColumn(family) ELSE BestAverageColumn(family)

\* C14: for every non-empty set of requested families the run does not fail,
\* scores one table per requested family, in order, and returns a table
\* whose consensus is taken over the representative columns of exactly the
\* requested families.
C14_RequestedFamilies ==
    /\ pc # "failed"
    /\ pc \in {"merge", "consensus", "returned"} =>
          /\ Len(model_results) = Len(Requested)
          /\ \A m \in 1..Len(Requested) :
                Representative(Requested[m]) \in Range(model_results[m].columns)
    /\ pc = "returned" =>
          \A r \in 1..Len(merged_results.rows) :
             LET row == merged_results.rows[r].vals
                 reps == [m \in 1..Len(Requested) |-> Representative(Requested[m])]
             IN SelectColumns(merged_results.columns, row, ConsensusColumns)
                    = ConsensusOf(SelectColumns(merged_results.columns, row, reps))

\* the records given to the invocation r share one column set
SameColumns(r) ==
    /\ Len(bc[r].dfs) >= 1
    /\ \A i \in 1..Len(bc[r].dfs) : bc[r].dfs[i].columns = bc[r].dfs[1].columns

\* C15: over records of one schema binary_concat returns a table, having made
\* the nRot cells numeric when the records have an nRot column and having
\* coerced nothing when they have none.
C15_NRotIfPresent ==
    (Finished(1) /\ SameColumns(1)) =>
        /\ bc[1].pc = "returned"
        /\ HasColumn(bc[1].dfs[1], "nRot") =>
              \A i \in 1..Len(bc[1].dfs) : \A r \in 1..Len(bc[1].dfs[i].data) :
                 bc[1].dfs[i].data[r][ColPos(bc[1].dfs[i].columns, "nRot")].t # "str"

\* C16: a run that returns over W work items returns a table of exactly W
\* rows: the join on (Receptor, Ligand) neither multiplies nor drops rows.
C16_RowCountPreserved ==
    pc = "returned" =>
        Len(scoring_function_results.val.rows) = Len(receptor_ligand_args)

====
